---- MODULE Spec2Model ----
(***************************************************************************)
(* A model of the EGG:V variant annotation stage (annotate.py) and of the  *)
(* drivers that compose the pipeline (pipeline.py).                        *)
(*                                                                         *)
(* A dataframe is a record [columns, rows]: a set of column names and a    *)
(* sequence of rows, each row a function from the column names to values.  *)
(* NULL stands for pandas' missing value (NaN / None).                      *)
(***************************************************************************)
EXTENDS Integers, Sequences, FiniteSets, TLC

VARIABLES
    \* ---- annotate.py, the relational transformation ----
    vdf,        \* the processed variant table handed to annotate_variants
    gdf,        \* the processed gene table handed to annotate_variants
    raw,        \* the raw left outer join of vdf with gdf (line 75-81)
    adf,        \* the annotated table annotate_variants returns
    idf,        \* isolate_intergenic_variants(adf)
    ndf,        \* isolate_annotated_variants(adf)
    stats,      \* collect_annotation_stats(adf)
    step,       \* how far the transformation has got
    \* ---- pipeline.py and the drivers of annotate.py ----
    entry,          \* the driver that runs
    species,        \* config.config['species']
    pc,             \* the driver's position
    client,         \* the dask client: "none", "open" or "closed"
    overwrite,      \* config.config['overwrite']
    force_default,  \* the default of the force parameter of the retrievals
    force,          \* the force the retrievals were called with: {} before
                    \* the call, then the set of that one value
    status,         \* the state of every task (future) of the cluster
    saves,          \* the futures of dfio.save_dataframe_async: how many are
                    \* pending, finished and erred
    yielded,        \* the variant futures as_completed has handed out
    cur,            \* the unit (chromosome file) the driver is working on
    annotation_started, \* the units whose annotation the driver has started
    saved_futures,  \* the list saved_futures of the complete pipelines
    annotated,      \* the list `annotated` of run_hg38_annotations
    intergenic,     \* the list `intergenic` of run_hg38_annotations
    chrom           \* the position of run_hg38_annotations in the chromosome list

avars == <<vdf, gdf, raw, adf, idf, ndf, stats, step>>
\* The configuration and the retrieval code do not change during a run.
cvars == <<overwrite, force_default>>

dvars == <<cvars, force, entry, species, pc, client, status, saves, yielded, cur, annotation_started,
           saved_futures, annotated, intergenic, chrom>>
vars == <<avars, dvars>>

(***************************************************************************)
(* Bounds of the model.                                                    *)
(***************************************************************************)
MaxVariantRows == 2
MaxGeneRows == 2
\* The number of variant files (chromosomes) the hg38 retrieval hands to the
\* complete pipeline, and the length of the chromosome list of annotate.py.
NumVariantFiles == 2
NumChroms == 4
\* The number of tasks that raise in one run.
MaxFailures == 1

NULL == "NULL"

(***************************************************************************)
(* Sequence helpers.                                                       *)
(***************************************************************************)
SeqsUpTo(S, n) == UNION {[1..k -> S] : k \in 0..n}

RECURSIVE TakeRows(_, _, _)
TakeRows(rows, idx, i) ==
    IF i > Len(rows) THEN <<>>
    ELSE (IF i \in idx THEN <<rows[i]>> ELSE <<>>) \o TakeRows(rows, idx, i + 1)

(***************************************************************************)
(* The dataframe operations annotate.py calls, as pandas/dask define them.  *)
(***************************************************************************)

\* DataFrame.merge(how='left', left_on, right_on, suffixes): a column name
\* found on both sides gets the side's suffix; every other name is kept.
MergeLeftName(c, left, right, suffixes) ==
    IF c \in (left.columns \cap right.columns) THEN c \o suffixes[1] ELSE c

MergeRightName(c, left, right, suffixes) ==
    IF c \in (left.columns \cap right.columns) THEN c \o suffixes[2] ELSE c

MergeColumns(left, right, suffixes) ==
    {MergeLeftName(c, left, right, suffixes) : c \in left.columns}
        \cup {MergeRightName(c, left, right, suffixes) : c \in right.columns}

\* pandas matches the join keys by value and, unlike SQL, matches a missing
\* key with a missing key.
MergeKeyMatch(l, r, left_on, right_on) == l[left_on] = r[right_on]

MergeRow(l, r, left, right, suffixes) ==
    [c \in MergeColumns(left, right, suffixes) |->
        IF \E lc \in left.columns : MergeLeftName(lc, left, right, suffixes) = c
        THEN l[CHOOSE lc \in left.columns :
                    MergeLeftName(lc, left, right, suffixes) = c]
        ELSE r[CHOOSE rc \in right.columns :
                    MergeRightName(rc, left, right, suffixes) = c]]
\* Mutant: an inner join, which contributes nothing for an unmatched left row.
MergeRowsOfInner(l, left, right, left_on, right_on, suffixes) ==
    LET m == SelectSeq(right.rows,
                       LAMBDA r : MergeKeyMatch(l, r, left_on, right_on))
    IN  [k \in 1..Len(m) |-> MergeRow(l, m[k], left, right, suffixes)]

\* The rows a left row contributes: one per matching right row, in the right
\* table's order, or one row with every right column missing when none matches.
MergeRowsOf(l, left, right, left_on, right_on, suffixes) ==
    LET m == SelectSeq(right.rows,
                       LAMBDA r : MergeKeyMatch(l, r, left_on, right_on))
    IN  IF m = <<>>
        THEN <<MergeRow(l, [c \in right.columns |-> NULL], left, right, suffixes)>>
        ELSE [k \in 1..Len(m) |-> MergeRow(l, m[k], left, right, suffixes)]

RECURSIVE MergeRowsFrom(_, _, _, _, _, _)
MergeRowsFrom(i, left, right, left_on, right_on, suffixes) ==
    IF i > Len(left.rows) THEN <<>>
    ELSE MergeRowsOf(left.rows[i], left, right, left_on, right_on, suffixes)
            \o MergeRowsFrom(i + 1, left, right, left_on, right_on, suffixes)

merge(left, right, left_on, right_on, suffixes) ==
    [columns |-> MergeColumns(left, right, suffixes),
     rows    |-> MergeRowsFrom(1, left, right, left_on, right_on, suffixes)]

\* DataFrame.rename(columns=mapping): a column named in the mapping takes its
\* new name; a name of the mapping that is no column is ignored.
RenamedTo(c, mapping) == IF c \in DOMAIN mapping THEN mapping[c] ELSE c

rename(df, mapping) ==
    LET cols == {RenamedTo(c, mapping) : c \in df.columns}
        Old(n) == CHOOSE c \in df.columns : RenamedTo(c, mapping) = n
    IN  [columns |-> cols,
         rows    |-> [i \in 1..Len(df.rows) |-> [n \in cols |-> df.rows[i][Old(n)]]]]

\* DataFrame.drop_duplicates(subset, keep='first'): a row is dropped when an
\* earlier row has the same values in the subset (missing equals missing).
SameKey(r1, r2, subset) == \A c \in subset : r1[c] = r2[c]

FirstSeen(df, subset) ==
    {i \in 1..Len(df.rows) :
        \A j \in 1..(i - 1) : ~SameKey(df.rows[j], df.rows[i], subset)}
\* Mutant: keep=False, which drops every row of a duplicated key.
drop_duplicates_keep_none(df, subset) ==
    [columns |-> df.columns,
     rows |-> TakeRows(df.rows,
                {i \in 1..Len(df.rows) :
                    \A j \in 1..Len(df.rows) :
                        j # i => ~SameKey(df.rows[j], df.rows[i], subset)}, 1)]

drop_duplicates(df, subset) ==
    [columns |-> df.columns, rows |-> TakeRows(df.rows, FirstSeen(df, subset), 1)]

\* df[[...]] / df.loc[:, keep]: the projection on the named columns.
project(df, keep) ==
    [columns |-> keep,
     rows    |-> [i \in 1..Len(df.rows) |-> [c \in keep |-> df.rows[i][c]]]]

\* df[mask]: the rows whose position is in the mask, in order.
filter(df, mask) == [columns |-> df.columns, rows |-> TakeRows(df.rows, mask, 1)]

(***************************************************************************)
(* annotate.py                                                             *)
(***************************************************************************)
AnnotatedColumns ==
    {"chromosome", "rsid", "variant_effect", "transcript",
     "gene_id", "gene_name", "gene_biotype"}

DedupSubset == {"rsid", "variant_effect", "gene_id"}

MergeSuffixes == <<"_l", "_r">>
\* Mutant: the gene side's chromosome is taken for the chromosome column.
RenameMapRight ==
    [c \in {"effect", "biotype", "chromosome_r"} |->
        CASE c = "effect" -> "variant_effect"
          [] c = "biotype" -> "gene_biotype"
          [] c = "chromosome_r" -> "chromosome"]

RenameMap ==
    [c \in {"effect", "biotype", "chromosome_l"} |->
        CASE c = "effect" -> "variant_effect"
          [] c = "biotype" -> "gene_biotype"
          [] c = "chromosome_l" -> "chromosome"]

raw_join(v, g) == merge(v, g, "transcript", "transcript_id", MergeSuffixes)

\* Lines 84-101, applied to the merged frame of line 75.
annotate_merged(df) ==
    project(drop_duplicates(rename(df, RenameMap), DedupSubset), AnnotatedColumns)

annotate_variants(v, g) == annotate_merged(raw_join(v, g))

\* The masks of the two isolate functions (lines 115 and 131).  pandas'
\* == on a missing value is False and != is True.
IsIntergenic(r) == r["variant_effect"] = "intergenic"

IntergenicMask(df) == {i \in 1..Len(df.rows) : IsIntergenic(df.rows[i])}
\* Mutant: the mapped subset forgets to exclude the intergenic rows.
AnnotatedMaskAnyEffect(df) ==
    {i \in 1..Len(df.rows) : df.rows[i]["gene_id"] # NULL}

AnnotatedMask(df) ==
    {i \in 1..Len(df.rows) :
        ~IsIntergenic(df.rows[i]) /\ df.rows[i]["gene_id"] # NULL}

isolate_intergenic_variants(df) ==
    project(filter(df, IntergenicMask(df)), {"chromosome", "rsid", "variant_effect"})

isolate_annotated_variants(df) ==
    project(filter(df, AnnotatedMask(df)),
            {"chromosome", "rsid", "variant_effect",
             "gene_id", "gene_name", "gene_biotype"})

\* collect_annotation_stats, lines 190-233.  The result holds, for every
\* chromosome of its index, the three cells [isnull, value] and, for every
\* column, its dtype.
FailedMask(df) ==
    {i \in 1..Len(df.rows) :
        ~IsIntergenic(df.rows[i]) /\ df.rows[i]["gene_id"] = NULL}

\* df[mask].groupby(by).count().loc[:, col]: one entry per value of `by`
\* among the masked rows (a missing `by` forms no group), holding the number
\* of the group's rows whose `col` is not missing.
GroupByCount(df, mask, by, col) ==
    [g \in {df.rows[i][by] : i \in mask} \ {NULL} |->
        Cardinality({i \in mask : df.rows[i][by] = g /\ df.rows[i][col] # NULL})]

\* pd.concat([...], axis=1, sort=True): the union of the indexes; a series
\* without an index value is missing there, which makes its column float64.
\* A cell is [isnull, value].
concat_columns(series) ==
    LET index == UNION {DOMAIN series[k] : k \in 1..Len(series)}
    IN  [index  |-> index,
         dtypes |-> [k \in 1..Len(series) |->
                        IF DOMAIN series[k] = index THEN "int64" ELSE "float64"],
         cells  |-> [g \in index |-> [k \in 1..Len(series) |->
                        IF g \in DOMAIN series[k]
                        THEN [isnull |-> FALSE, value |-> series[k][g]]
                        ELSE [isnull |-> TRUE, value |-> 0]]]]
\* Mutant: the missing cells are left as they are.
fillna_noop(t, v) == t

fillna(t, v) ==
    [t EXCEPT !.cells = [g \in t.index |-> [k \in DOMAIN t.cells[g] |->
                            IF t.cells[g][k].isnull
                            THEN [isnull |-> FALSE, value |-> v]
                            ELSE t.cells[g][k]]]]

astype(t, dtype) == [t EXCEPT !.dtypes = [k \in DOMAIN t.dtypes |-> dtype]]

StatsColumns == <<"intra_mapped", "intra_failed", "intergenic">>

collect_annotation_stats(df) ==
    LET intra_mapped == GroupByCount(df, AnnotatedMask(df), "chromosome", "rsid")
        intra_failed == GroupByCount(df, FailedMask(df), "chromosome", "rsid")
        intergenic_  == GroupByCount(df, IntergenicMask(df), "chromosome", "rsid")
        t == astype(fillna(concat_columns(<<intra_mapped, intra_failed, intergenic_>>), 0),
                    "int64")
    IN  [index  |-> t.index,
         dtypes |-> [k \in 1..3 |-> t.dtypes[k]],
         counts |-> [g \in t.index |->
                        [n \in {StatsColumns[k] : k \in 1..3} |->
                            t.cells[g][CHOOSE k \in 1..3 : StatsColumns[k] = n]]]]

(***************************************************************************)
(* The tables the transformation is run on.                                *)
(***************************************************************************)
VariantColumns == {"chromosome", "rsid", "effect", "transcript"}

VariantRows ==
    [chromosome : {"1", "2"}, rsid : {"rs1", NULL},
     effect : {"intergenic", "missense"}, transcript : {"T1", NULL}]

\* Gene rows: two genes with a transcript T1 each, and a row of gene G1 whose
\* transcript identifier is missing.
GeneRowsPlain ==
    {r \in [transcript_id : {"T1", NULL}, gene_id : {"G1", "G2"},
            gene_name : {"X"}, biotype : {"protein_coding"}] :
        r.transcript_id = NULL => r.gene_id = "G1"}

GeneRowsChrom ==
    {r \in [transcript_id : {"T1", NULL}, gene_id : {"G1", "G2"},
            gene_name : {"X"}, biotype : {"protein_coding"}, chromosome : {"2"}] :
        r.transcript_id = NULL => r.gene_id = "G1"}

VariantTables ==
    {[columns |-> VariantColumns, rows |-> s] : s \in SeqsUpTo(VariantRows, MaxVariantRows)}

GeneTables ==
    {[columns |-> {"transcript_id", "gene_id", "gene_name", "biotype"}, rows |-> s] :
        s \in SeqsUpTo(GeneRowsPlain, MaxGeneRows)}
    \cup
    {[columns |-> {"transcript_id", "gene_id", "gene_name", "biotype", "chromosome"},
      rows |-> s] : s \in SeqsUpTo(GeneRowsChrom, MaxGeneRows)}

NoTable == [columns |-> {}, rows |-> <<>>]
NoStats == [index |-> {}, dtypes |-> <<>>, counts |-> <<>>]

ReadTables ==
    /\ vdf \in VariantTables
    /\ gdf \in GeneTables
    /\ raw = NoTable
    /\ adf = NoTable
    /\ idf = NoTable
    /\ ndf = NoTable
    /\ stats = NoStats
    /\ step = "read"

\* adf = annotate_variants(vdf, gdf)   (run_mm10_annotations, line 329)
AnnotateVariants ==
    /\ step = "read"
    /\ raw' = raw_join(vdf, gdf)
    /\ adf' = annotate_merged(raw')
    /\ step' = "annotated"
    /\ UNCHANGED <<vdf, gdf, idf, ndf, stats>>

\* idf, ndf and the statistics of adf   (run_mm10_annotations, lines 333-357)
IsolateAndCollect ==
    /\ step = "annotated"
    /\ idf' = isolate_intergenic_variants(adf)
    /\ ndf' = isolate_annotated_variants(adf)
    /\ stats' = collect_annotation_stats(adf)
    /\ step' = "isolated"
    /\ UNCHANGED <<vdf, gdf, raw, adf>>


(***************************************************************************)
(* The cluster.  A task (a dask future) is a pair <<kind, unit>>; unit 0   *)
(* is the build-wide one, unit u > 0 a variant file / chromosome.  A task  *)
(* is "none" before it is submitted, then "pending", then "finished" or    *)
(* "error".                                                                *)
(*                                                                         *)
(* The future dfio.save_dataframe_async returns stands for the computation *)
(* of the persisted collection it is given and for its write.  The drivers *)
(* never tell these futures apart (they gather them all), so the cluster   *)
(* keeps of them the number in each state; saved_futures keeps their names.*)
(***************************************************************************)
MaxUnit == IF NumChroms > NumVariantFiles THEN NumChroms ELSE NumVariantFiles

Kinds ==
    {"gene_retrieval", "variant_retrieval", "gene_processing",
     "save_genes_submit", "save_inter_submit", "save_intra_submit",
     "process_variants", "process_genes", "annotate",
     "write_annotated", "write_intergenic",
     "consolidate_annotated", "consolidate_intergenic",
     "collect_stats", "write_stats"}

BuildWideKinds ==
    {"gene_retrieval", "gene_processing", "save_genes_submit", "process_genes"}

Task(kind, u) == <<kind, u>>

Tasks == (BuildWideKinds \X {0}) \cup ((Kinds \ BuildWideKinds) \X (1..MaxUnit))

States == {"pending", "finished", "error"}

\* Mutant: the consolidations are submitted with the path of the temporary
\* directory instead of the future of the write that fills it.
DepsWithoutWrites(t) ==
    CASE t[1] = "gene_processing"   -> {Task("gene_retrieval", 0)}
      [] t[1] = "save_genes_submit" -> {Task("gene_processing", 0)}
      [] t[1] = "write_stats"       -> {Task("collect_stats", t[2])}
      [] OTHER                      -> {}

\* The futures a task is submitted with: the scheduler runs the task once
\* they have finished.
Deps(t) ==
    CASE t[1] = "gene_processing"        -> {Task("gene_retrieval", 0)}
      [] t[1] = "save_genes_submit"      -> {Task("gene_processing", 0)}
      [] t[1] = "consolidate_annotated"  -> {Task("write_annotated", t[2])}
      [] t[1] = "consolidate_intergenic" -> {Task("write_intergenic", t[2])}
      [] t[1] = "write_stats"            -> {Task("collect_stats", t[2])}
      [] OTHER                           -> {}

\* client.submit(dfio.save_dataframe_async, ...): the submitted task starts
\* a save and returns its future, "a future of a future".
StartsSave(t) ==
    t[1] \in {"save_genes_submit", "save_inter_submit", "save_intra_submit"}

Submit(st, ts) == [t \in Tasks |-> IF t \in ts THEN "pending" ELSE st[t]]

\* n more saves are pending.
SavesStarted(sv, n) == [sv EXCEPT !["pending"] = @ + n]

NoSaves == [s \in States |-> 0]

Done(t) == status[t] \in {"finished", "error"}

\* The tasks and saves that have raised.
Failures == Cardinality({f \in Tasks : status[f] = "error"}) + saves["error"]

\* The driver's process is alive: its futures are held and the cluster works.
Alive == pc \notin {"idle", "done", "error"}

\* A worker runs a task whose dependencies have finished.
TaskFinishes(t) ==
    /\ Alive
    /\ status[t] = "pending"
    /\ \A d \in Deps(t) : status[d] = "finished"
    /\ status' = [status EXCEPT ![t] = "finished"]
    /\ saves' = IF StartsSave(t) THEN SavesStarted(saves, 1) ELSE saves
    /\ UNCHANGED <<avars, cvars, force, entry, species, pc, client, yielded, cur,
                   annotation_started, saved_futures, annotated, intergenic, chrom>>

\* ... or the task raises.
TaskFails(t) ==
    /\ Alive
    /\ status[t] = "pending"
    /\ \A d \in Deps(t) : status[d] = "finished"
    /\ Failures < MaxFailures
    /\ status' = [status EXCEPT ![t] = "error"]
    /\ UNCHANGED <<avars, cvars, force, entry, species, pc, client, saves, yielded, cur,
                   annotation_started, saved_futures, annotated, intergenic, chrom>>

\* The scheduler marks a task whose dependency erred as erred.
TaskDependencyErred(t) ==
    /\ Alive
    /\ status[t] = "pending"
    /\ \E d \in Deps(t) : status[d] = "error"
    /\ status' = [status EXCEPT ![t] = "error"]
    /\ UNCHANGED <<avars, cvars, force, entry, species, pc, client, saves, yielded, cur,
                   annotation_started, saved_futures, annotated, intergenic, chrom>>

\* A pending save finishes ...
SaveFinishes ==
    /\ Alive
    /\ saves["pending"] > 0
    /\ saves' = [saves EXCEPT !["pending"] = @ - 1, !["finished"] = @ + 1]
    /\ UNCHANGED <<avars, cvars, force, entry, species, pc, client, status, yielded, cur,
                   annotation_started, saved_futures, annotated, intergenic, chrom>>

\* ... or raises.
SaveFails ==
    /\ Alive
    /\ saves["pending"] > 0
    /\ Failures < MaxFailures
    /\ saves' = [saves EXCEPT !["pending"] = @ - 1, !["error"] = @ + 1]
    /\ UNCHANGED <<avars, cvars, force, entry, species, pc, client, status, yielded, cur,
                   annotation_started, saved_futures, annotated, intergenic, chrom>>

(***************************************************************************)
(* pipeline.py                                                             *)
(***************************************************************************)
\* The variant files of the build: one per chromosome for hg38 ("a list of
\* futures, one per chromosome"), one for mm10.
Units == IF species = "hg38" THEN 1..NumVariantFiles ELSE {1}

VariantFutures == {Task("variant_retrieval", u) : u \in Units}

\* The force a retrieval runs with when it is called with the arguments
\* passed (a set: empty when the call names no force): the parameter's
\* default when none is passed.
RetrievalForce(passed) == IF passed = {} THEN {force_default} ELSE passed

\* run_retrieve_step, lines 78-90: force = config.config['overwrite'] is
\* passed to both retrievals.
RunRetrieveStep ==
    /\ pc = "start" /\ entry = "run_retrieve_step"
    /\ client' = "open"
    /\ force' = RetrievalForce({overwrite})
    /\ status' = Submit(status, VariantFutures \cup {Task("gene_retrieval", 0)})
    /\ pc' = "gather"
    /\ UNCHANGED <<avars, cvars, entry, species, saves, yielded, cur,
                   annotation_started, saved_futures, annotated, intergenic, chrom>>

\* run_process_step, lines 106-116
RunProcessStep ==
    /\ pc = "start" /\ entry = "run_process_step"
    /\ client' = "open"
    /\ status' = Submit(status, {Task("process_variants", u) : u \in Units}
                                    \cup {Task("process_genes", 0)})
    /\ pc' = "gather"
    /\ UNCHANGED <<avars, cvars, force, entry, species, saves, yielded, cur,
                   annotation_started, saved_futures, annotated, intergenic, chrom>>

\* run_annotate_step, lines 132-140
RunAnnotateStep ==
    /\ pc = "start" /\ entry = "run_annotate_step"
    /\ client' = "open"
    /\ status' = Submit(status, {Task("annotate", u) : u \in Units})
    /\ pc' = "gather"
    /\ UNCHANGED <<avars, cvars, force, entry, species, saves, yielded, cur,
                   annotation_started, saved_futures, annotated, intergenic, chrom>>

\* The futures the driver hands to client.gather, when they are tasks.
GatherList ==
    CASE entry = "run_retrieve_step" -> VariantFutures \cup {Task("gene_retrieval", 0)}
      [] entry = "run_process_step"  -> {Task("process_variants", u) : u \in Units}
                                            \cup {Task("process_genes", 0)}
      [] entry = "run_annotate_step" -> {Task("annotate", u) : u \in Units}
      [] entry = "run_hg38_annotations" ->
            {annotated[i] : i \in 1..Len(annotated)}
                \cup {intergenic[i] : i \in 1..Len(intergenic)}
      [] OTHER -> {}

\* Mutant: the complete pipelines gather an empty list instead of
\* saved_futures.
GatheredWithoutSaves ==
    [s \in States |-> Cardinality({f \in GatherList : status[f] = s})]

\* How many of the gathered futures are in each state.  The complete
\* pipelines gather saved_futures, the futures of all the saves started.
Gathered ==
    IF entry = "run_complete_pipeline"
    THEN saves
    ELSE [s \in States |-> Cardinality({f \in GatherList : status[f] = s})]

\* Mutant: client.gather(..., errors='skip'), which passes over erred futures.
GatherCompleteSkippingErrors(g) == g["pending"] = 0

\* client.gather returns once every future has finished ...
GatherComplete(g) == g["pending"] = 0 /\ g["error"] = 0

\* ... and raises the exception of a future that erred.
GatherRaises(g) == g["error"] > 0

\* client.gather(...); client.close()   (lines 93-94, 119-120, 143-144,
\* 230-233, 311-314; annotate.py lines 400-425)
GatherAndClose ==
    /\ pc = "gather"
    /\ GatherComplete(Gathered)
    /\ client' = "closed"
    /\ pc' = "done"
    /\ UNCHANGED <<avars, cvars, force, entry, species, status, saves, yielded, cur,
                   annotation_started, saved_futures, annotated, intergenic, chrom>>

GatherFails ==
    /\ pc = "gather"
    /\ GatherRaises(Gathered)
    /\ pc' = "error"
    /\ UNCHANGED <<avars, cvars, force, entry, species, client, status, saves, yielded, cur,
                   annotation_started, saved_futures, annotated, intergenic, chrom>>

\* future.result(): blocks until the future is done, then returns its value
\* or raises its exception.  The position the driver goes to.
ResultThen(t, next) == IF status[t] = "finished" THEN next ELSE "error"

\* _run_complete_hg38_pipeline lines 157-174 and _run_complete_mm10_pipeline
\* lines 246-263, up to the submission of the save of the processed genes.
\* The retrievals are called without arguments (lines 161-162, 250-251).
CompleteStart ==
    /\ pc = "start" /\ entry = "run_complete_pipeline"
    /\ client' = "open"
    /\ force' = RetrievalForce({})
    /\ status' = Submit(status,
                    VariantFutures \cup
                    {Task("gene_retrieval", 0), Task("gene_processing", 0),
                     Task("save_genes_submit", 0)})
    /\ saved_futures' = <<>>
    /\ pc' = "result_save_genes"
    /\ UNCHANGED <<avars, cvars, entry, species, saves, yielded, cur,
                   annotation_started, annotated, intergenic, chrom>>

\* saved_futures.append(client.submit(...).result())   (lines 170-174, 259-263)
ResultSaveGenes ==
    /\ pc = "result_save_genes"
    /\ Done(Task("save_genes_submit", 0))
    /\ pc' = ResultThen(Task("save_genes_submit", 0),
                        IF species = "hg38" THEN "as_completed" ELSE "result_variants")
    /\ saved_futures' =
          IF status[Task("save_genes_submit", 0)] = "finished"
          THEN Append(saved_futures, <<"save_genes", 0>>)
          ELSE saved_futures
    /\ UNCHANGED <<avars, cvars, force, entry, species, client, status, saves, yielded, cur,
                   annotation_started, annotated, intergenic, chrom>>

\* Lines 182-200 (hg38) and 269-283 (mm10): process the variants of unit u,
\* persist them and start the saves of the effects and of the metadata.
ProcessVariants(u) ==
    /\ cur' = u
    /\ saves' = SavesStarted(saves, 2)
    /\ saved_futures' = saved_futures \o <<<<"save_effects", u>>, <<"save_meta", u>>>>

\* Mutant: the loop walks the list of futures in order and asks each for its
\* result, so a file is taken only once every file before it has been.
NextInOrder(u) ==
    /\ u \notin yielded
    /\ \A w \in Units : w < u => w \in yielded
    /\ Done(Task("variant_retrieval", u))

\* as_completed(variant_futures, with_results=True), line 177: the next
\* future it hands out is one that is done and was not handed out before.
AsCompletedNext(u) == u \notin yielded /\ Done(Task("variant_retrieval", u))

\* One turn of the loop of line 177, to the call of line 203.
AsCompletedYields ==
    /\ pc = "as_completed"
    /\ \E u \in Units :
          /\ AsCompletedNext(u)
          /\ yielded' = yielded \cup {u}
          /\ IF status[Task("variant_retrieval", u)] # "error"
             THEN ProcessVariants(u) /\ pc' = "result_processed_genes"
             ELSE pc' = "error" /\ UNCHANGED <<cur, saves, saved_futures>>
    /\ UNCHANGED <<avars, cvars, force, entry, species, client, status,
                   annotation_started, annotated, intergenic, chrom>>

\* The loop of line 177 ends when every future has been handed out (line 227).
AsCompletedExhausted ==
    /\ pc = "as_completed"
    /\ yielded = Units
    /\ pc' = "gather"
    /\ UNCHANGED <<avars, cvars, force, entry, species, client, status, saves, yielded, cur,
                   annotation_started, saved_futures, annotated, intergenic, chrom>>

\* variants = variant_futures.result()   (mm10, lines 268-283)
ResultVariants ==
    /\ pc = "result_variants"
    /\ Done(Task("variant_retrieval", 1))
    /\ yielded' = yielded \cup {1}
    /\ IF status[Task("variant_retrieval", 1)] = "finished"
       THEN ProcessVariants(1) /\ pc' = "result_processed_genes"
       ELSE pc' = "error" /\ UNCHANGED <<cur, saves, saved_futures>>
    /\ UNCHANGED <<avars, cvars, force, entry, species, client, status,
                   annotation_started, annotated, intergenic, chrom>>

\* annotate.run_annotation_pipeline(effect_df, processed_genes.result()), the
\* persists and the submission of the save of the intergenic subset
\* (lines 203-218, 286-299).
ResultProcessedGenes ==
    /\ pc = "result_processed_genes"
    /\ Done(Task("gene_processing", 0))
    /\ pc' = ResultThen(Task("gene_processing", 0), "result_save_inter")
    /\ IF status[Task("gene_processing", 0)] = "finished"
       THEN /\ annotation_started' = annotation_started \cup {cur}
            /\ status' = Submit(status, {Task("save_inter_submit", cur)})
       ELSE UNCHANGED <<annotation_started, status>>
    /\ UNCHANGED <<avars, cvars, force, entry, species, client, saves, yielded, cur,
                   saved_futures, annotated, intergenic, chrom>>

\* .result() of the submitted intergenic save, then the submission of the
\* save of the intragenic subset (lines 215-224, 296-305).
ResultSaveInter ==
    /\ pc = "result_save_inter"
    /\ Done(Task("save_inter_submit", cur))
    /\ pc' = ResultThen(Task("save_inter_submit", cur), "result_save_intra")
    /\ IF status[Task("save_inter_submit", cur)] = "finished"
       THEN /\ saved_futures' = Append(saved_futures, <<"save_inter", cur>>)
            /\ status' = Submit(status, {Task("save_intra_submit", cur)})
       ELSE UNCHANGED <<saved_futures, status>>
    /\ UNCHANGED <<avars, cvars, force, entry, species, client, saves, yielded, cur,
                   annotation_started, annotated, intergenic, chrom>>

\* .result() of the submitted intragenic save (lines 221-225, 302-306); the
\* hg38 driver goes back to the loop, the mm10 driver on to the gather.
ResultSaveIntra ==
    /\ pc = "result_save_intra"
    /\ Done(Task("save_intra_submit", cur))
    /\ pc' = ResultThen(Task("save_intra_submit", cur),
                        IF species = "hg38" THEN "as_completed" ELSE "gather")
    /\ saved_futures' =
          IF status[Task("save_intra_submit", cur)] = "finished"
          THEN Append(saved_futures, <<"save_intra", cur>>)
          ELSE saved_futures
    /\ UNCHANGED <<avars, cvars, force, entry, species, client, status, saves, yielded, cur,
                   annotation_started, annotated, intergenic, chrom>>

(***************************************************************************)
(* annotate.py, the drivers                                                *)
(***************************************************************************)
\* globe._var_human_chromosomes: the ordered list of chromosome names, cut to
\* its first NumChroms names.
HumanChromosomes == [i \in 1..NumChroms |-> ToString(i)]

\* The chromosome at which the loop of run_hg38_annotations breaks (line 299).
BreakAfter == "3"

\* __main__ of annotate.py, lines 366-400, to the loop of run_hg38_annotations.
Hg38AnnotationsStart ==
    /\ pc = "start" /\ entry = "run_hg38_annotations"
    /\ client' = "open"
    /\ annotated' = <<>>
    /\ intergenic' = <<>>
    /\ chrom' = 1
    /\ pc' = "chromosome_loop"
    /\ UNCHANGED <<avars, cvars, force, entry, species, status, saves, yielded, cur,
                   annotation_started, saved_futures>>

\* One turn of the loop of run_hg38_annotations, lines 255-300; after the
\* last turn the function returns its lists (lines 306-310) to __main__.
Hg38AnnotationsLoop ==
    /\ pc = "chromosome_loop"
    /\ chrom <= Len(HumanChromosomes)
    /\ status' = Submit(status,
                    {Task("write_annotated", chrom), Task("write_intergenic", chrom),
                     Task("consolidate_annotated", chrom),
                     Task("consolidate_intergenic", chrom)})
    /\ annotated' = Append(annotated, Task("consolidate_annotated", chrom))
    /\ intergenic' = Append(intergenic, Task("consolidate_intergenic", chrom))
    /\ IF HumanChromosomes[chrom] = BreakAfter \/ chrom = Len(HumanChromosomes)
       THEN pc' = "gather" /\ chrom' = chrom
       ELSE pc' = "chromosome_loop" /\ chrom' = chrom + 1
    /\ UNCHANGED <<avars, cvars, force, entry, species, client, saves, yielded, cur,
                   annotation_started, saved_futures>>

\* run_mm10_annotations, lines 327-364: everything is submitted at once.
Mm10Annotations ==
    /\ pc = "start" /\ entry = "run_mm10_annotations"
    /\ client' = "open"
    /\ status' = Submit(status,
                    {Task("write_annotated", 1), Task("write_intergenic", 1),
                     Task("consolidate_annotated", 1),
                     Task("consolidate_intergenic", 1),
                     Task("collect_stats", 1), Task("write_stats", 1)})
    /\ pc' = "returned"
    /\ UNCHANGED <<avars, cvars, force, entry, species, saves, yielded, cur,
                   annotation_started, saved_futures, annotated, intergenic, chrom>>

(***************************************************************************)
(* The specifications.                                                     *)
(***************************************************************************)
IdleAnnotate ==
    /\ vdf = NoTable /\ gdf = NoTable /\ raw = NoTable /\ adf = NoTable
    /\ idf = NoTable /\ ndf = NoTable /\ stats = NoStats /\ step = "idle"

IdleDriver ==
    /\ entry = "none" /\ species = "none" /\ pc = "idle" /\ client = "none"
    /\ overwrite = FALSE /\ force_default = FALSE /\ force = {}
    /\ status = [t \in Tasks |-> "none"]
    /\ saves = NoSaves
    /\ yielded = {} /\ cur = 0 /\ annotation_started = {}
    /\ saved_futures = <<>> /\ annotated = <<>> /\ intergenic = <<>> /\ chrom = 0

PipelineEntries ==
    {"run_retrieve_step", "run_process_step", "run_annotate_step",
     "run_complete_pipeline"}

Entries ==
    (PipelineEntries \X {"hg38", "mm10"})
    \cup {<<"run_hg38_annotations", "hg38">>, <<"run_mm10_annotations", "mm10">>}

InitDriver(entries) ==
    /\ \E e \in entries : entry = e[1] /\ species = e[2]
    /\ pc = "start" /\ client = "none"
    /\ overwrite \in BOOLEAN /\ force_default \in BOOLEAN /\ force = {}
    /\ status = [t \in Tasks |-> "none"]
    /\ saves = NoSaves
    /\ yielded = {} /\ cur = 0 /\ annotation_started = {}
    /\ saved_futures = <<>> /\ annotated = <<>> /\ intergenic = <<>> /\ chrom = 0

Init == IdleAnnotate /\ InitDriver(Entries)

Cluster ==
    \/ \E t \in Tasks : TaskFinishes(t) \/ TaskFails(t) \/ TaskDependencyErred(t)
    \/ SaveFinishes
    \/ SaveFails

Hg38CompleteDriver ==
    \/ CompleteStart
    \/ ResultSaveGenes
    \/ AsCompletedYields
    \/ AsCompletedExhausted
    \/ ResultProcessedGenes
    \/ ResultSaveInter
    \/ ResultSaveIntra
    \/ GatherAndClose
    \/ GatherFails

Next ==
    \/ Cluster
    \/ Hg38CompleteDriver
    \/ ResultVariants
    \/ RunRetrieveStep
    \/ RunProcessStep
    \/ RunAnnotateStep
    \/ Hg38AnnotationsStart
    \/ Hg38AnnotationsLoop
    \/ Mm10Annotations

Spec == Init /\ [][Next]_vars

(***************************************************************************)
(* The complete hg38 pipeline under the scheduling the code relies on: the *)
(* driver takes its next step when it can, and the scheduler runs to their *)
(* end the tasks that are fast by construction (the processing of the gene *)
(* table and the tasks that only start a save).  Nothing is assumed of the *)
(* downloads of the variant files or of the saves: each may take for ever. *)
(***************************************************************************)
InitHg38 == IdleAnnotate /\ InitDriver({<<"run_complete_pipeline", "hg38">>})

NextHg38 ==
    \/ Cluster
    \/ Hg38CompleteDriver

TaskEnds(t) == TaskFinishes(t) \/ TaskFails(t) \/ TaskDependencyErred(t)

FairHg38 ==
    /\ InitHg38
    /\ [][NextHg38]_vars
    /\ WF_vars(Hg38CompleteDriver)
    /\ \A t \in {f \in Tasks : f[1] # "variant_retrieval"} : WF_vars(TaskEnds(t))

(***************************************************************************)
(* The two complete pipelines under fair scheduling: the driver takes its  *)
(* next step when it can, and every task and every save that can run comes *)
(* to an end (it finishes or raises).                                      *)
(***************************************************************************)
InitComplete ==
    IdleAnnotate /\ InitDriver({"run_complete_pipeline"} \X {"hg38", "mm10"})

CompleteDriver ==
    \/ Hg38CompleteDriver
    \/ ResultVariants

NextComplete ==
    \/ Cluster
    \/ CompleteDriver

SaveEnds == SaveFinishes \/ SaveFails

FairComplete ==
    /\ InitComplete
    /\ [][NextComplete]_vars
    /\ WF_vars(CompleteDriver)
    /\ \A t \in Tasks : WF_vars(TaskEnds(t))
    /\ WF_vars(SaveEnds)

NextAnnotate ==
    \/ (AnnotateVariants /\ UNCHANGED dvars)
    \/ (IsolateAndCollect /\ UNCHANGED dvars)

\* The tables are read and no driver runs.
InitAnnotate == ReadTables /\ IdleDriver

SpecAnnotate == InitAnnotate /\ [][NextAnnotate]_vars

(***************************************************************************)
(* Properties of the relational transformation.                            *)
(***************************************************************************)
RowsOf(df) == 1..Len(df.rows)

\* For every raw-join row, the position of the variant row it comes from.
RECURSIVE OriginFrom(_)
OriginFrom(i) ==
    IF i > Len(vdf.rows) THEN <<>>
    ELSE LET n == Len(MergeRowsOf(vdf.rows[i], vdf, gdf,
                                  "transcript", "transcript_id", MergeSuffixes))
         IN  [k \in 1..n |-> i] \o OriginFrom(i + 1)

\* For every annotated row, the position of the raw-join row that was kept.
KeptRaw ==
    TakeRows([i \in RowsOf(raw) |-> i],
             FirstSeen(rename(raw, RenameMap), DedupSubset), 1)

HasMatch(v) ==
    \E k \in RowsOf(gdf) : MergeKeyMatch(v, gdf.rows[k], "transcript", "transcript_id")

RawKey(r) == <<r["rsid"], r["effect"], r["gene_id"]>>
AnnotatedKey(r) == <<r["rsid"], r["variant_effect"], r["gene_id"]>>

C2_DedupByKey ==
    step = "annotated" =>
        /\ \A i, j \in RowsOf(adf) :
              AnnotatedKey(adf.rows[i]) = AnnotatedKey(adf.rows[j]) => i = j
        /\ Len(adf.rows) = Cardinality({RawKey(raw.rows[i]) : i \in RowsOf(raw)})

\* Two gene rows of one gene match the transcript of one variant, and the
\* annotated table holds one row for the pair.
C2_Witness ==
    /\ step = "annotated"
    /\ Len(vdf.rows) = 1
    /\ \E i, j \in RowsOf(gdf) :
          /\ i # j
          /\ gdf.rows[i]["gene_id"] = gdf.rows[j]["gene_id"]
          /\ gdf.rows[i]["transcript_id"] = vdf.rows[1]["transcript"]
          /\ gdf.rows[j]["transcript_id"] = vdf.rows[1]["transcript"]
    /\ Len(raw.rows) = 2
    /\ Len(adf.rows) = 1

\* C3: for every chromosome of the annotated table, the three counts of its
\* stats row add up to the number of annotated rows of that chromosome.
C3_CountsAddUp ==
    step = "isolated" =>
        \A g \in {adf.rows[i]["chromosome"] : i \in RowsOf(adf)} :
            /\ g \in stats.index
            /\ stats.counts[g]["intra_mapped"].value
                  + stats.counts[g]["intra_failed"].value
                  + stats.counts[g]["intergenic"].value
               = Cardinality({i \in RowsOf(adf) : adf.rows[i]["chromosome"] = g})

C5_NoVariantDropped ==
    step = "annotated" =>
        \A i \in RowsOf(vdf) :
            \E j \in RowsOf(adf) :
                /\ adf.rows[j]["rsid"] = vdf.rows[i]["rsid"]
                /\ adf.rows[j]["variant_effect"] = vdf.rows[i]["effect"]
                /\ ~HasMatch(vdf.rows[i]) => adf.rows[j]["gene_id"] = NULL

\* A variant without a transcript and a variant whose transcript is in no
\* gene row, both annotated.
C5_Witness ==
    /\ step = "annotated"
    /\ \E i \in RowsOf(vdf) : vdf.rows[i]["transcript"] = NULL /\ ~HasMatch(vdf.rows[i])
    /\ \E i \in RowsOf(vdf) : vdf.rows[i]["transcript"] # NULL /\ ~HasMatch(vdf.rows[i])
    /\ \E j \in RowsOf(adf) : adf.rows[j]["gene_id"] = NULL

\* C6: the chromosome of every annotated row is the chromosome of the
\* variant row it derives from.
C6_LeftChromosome ==
    step = "annotated" =>
        LET origin == OriginFrom(1)
            kept == KeptRaw
        IN  /\ Len(kept) = Len(adf.rows)
            /\ \A j \in RowsOf(adf) :
                  adf.rows[j]["chromosome"] = vdf.rows[origin[kept[j]]]["chromosome"]

\* A variant of chromosome 1 matched to a gene row that carries chromosome 2,
\* and a gene table without a chromosome column.
C6_WitnessOtherChromosome ==
    /\ step = "annotated"
    /\ "chromosome" \in gdf.columns
    /\ \E i \in RowsOf(vdf) :
          vdf.rows[i]["chromosome"] = "1" /\ HasMatch(vdf.rows[i])
    /\ \E j \in RowsOf(adf) :
          adf.rows[j]["gene_id"] # NULL /\ adf.rows[j]["chromosome"] = "1"


(***************************************************************************)
(* The drivers.                                                            *)
(***************************************************************************)
\* The lists run_hg38_annotations would return had it made a turn of its
\* loop for every chromosome.
AllConsolidated(kind) == [i \in 1..Len(HumanChromosomes) |-> Task(kind, i)]

\* C7: when run_hg38_annotations has returned, its lists 'annotated' and
\* 'intergenic' hold one consolidation future per chromosome of the list of
\* chromosomes, in the order of the list, none skipped.
C7_CompleteChromosomeList ==
    entry = "run_hg38_annotations" /\ pc \in {"gather", "done", "error"} =>
        /\ annotated = AllConsolidated("consolidate_annotated")
        /\ intergenic = AllConsolidated("consolidate_intergenic")

\* C8: no stage starts before its inputs are complete.  A unit whose
\* annotation was started by a complete pipeline has its variant retrieval
\* and the gene processing finished; a consolidation that has run has the
\* write of its temporary directory finished.
C8_InputsComplete ==
    /\ \A u \in annotation_started :
          /\ status[Task("variant_retrieval", u)] = "finished"
          /\ status[Task("gene_processing", 0)] = "finished"
    /\ \A u \in 1..MaxUnit :
          /\ status[Task("consolidate_annotated", u)] = "finished" =>
                status[Task("write_annotated", u)] = "finished"
          /\ status[Task("consolidate_intergenic", u)] = "finished" =>
                status[Task("write_intergenic", u)] = "finished"

\* A complete hg38 pipeline has started the annotation of a chromosome while
\* the file of another one is still being retrieved.
C8_Witness ==
    /\ entry = "run_complete_pipeline" /\ species = "hg38"
    /\ \E u \in annotation_started, w \in Units :
          status[Task("variant_retrieval", w)] = "pending"

\* The saves of the annotations of chromosome u have been submitted.
AnnotationSavesSubmitted(u) ==
    /\ status[Task("save_inter_submit", u)] # "none"
    /\ status[Task("save_intra_submit", u)] # "none"

\* C9: in the complete hg38 pipeline, once the variant file of a chromosome
\* is retrieved the saves of its intergenic and intragenic subsets are
\* eventually submitted (unless the run fails first), whatever becomes of
\* the retrievals and the saves of the other chromosomes.
C9_StreamAsReady ==
    \A u \in 1..NumVariantFiles :
        (status[Task("variant_retrieval", u)] = "finished")
            ~> (AnnotationSavesSubmitted(u) \/ pc = "error")

\* The saves of a chromosome are submitted while the file of a chromosome
\* that comes before it in the list is still being retrieved and nothing of
\* the first chromosome's saves exists.
C9_Witness ==
    /\ entry = "run_complete_pipeline" /\ species = "hg38"
    /\ \E u \in Units :
          /\ AnnotationSavesSubmitted(u)
          /\ \E w \in Units :
                /\ w < u
                /\ status[Task("variant_retrieval", w)] = "pending"
                /\ status[Task("save_inter_submit", w)] = "none"

\* No task or save that raised is submitted again or run again.
NoRetry ==
    /\ \A t \in Tasks : status[t] = "error" => status'[t] = "error"
    /\ saves'["error"] >= saves["error"]

\* The positions at which a driver asks for a result or gathers.
RequestPositions ==
    {"gather", "as_completed", "result_save_genes", "result_variants",
     "result_processed_genes", "result_save_inter", "result_save_intra"}

\* The driver fails only where it asks for the result of a future, and only
\* when something has raised.
RaisedAtRequest ==
    pc # "error" /\ pc' = "error" => pc \in RequestPositions /\ Failures > 0

\* A step of a driver of pipeline.py retries nothing and fails only where it
\* asks for a result.
PipelineStep == entry \in PipelineEntries => (NoRetry /\ RaisedAtRequest)

\* C10: a task that fails is not retried or resubmitted by any driver of
\* pipeline.py; a driver fails where it gathers or asks for a result; and a
\* run in which something failed never reaches 'Done!'.
C10_FailureIsFatal ==
    /\ [](entry \in PipelineEntries /\ pc = "done" => Failures = 0)
    /\ [][PipelineStep]_vars

\* A save raised and the complete pipeline failed in its gather.
C10_Witness ==
    /\ entry = "run_complete_pipeline"
    /\ pc = "error"
    /\ saves["error"] > 0
    /\ Len(saved_futures) = 1 + 4 * Cardinality(Units)


\* C11: every driver of pipeline.py that retrieves calls the retrievals with
\* force equal to the configured overwrite flag, for both builds.
C11_ForceIsOverwrite ==
    entry \in {"run_retrieve_step", "run_complete_pipeline"} /\ force # {} =>
        force = {overwrite}

\* The saves a complete pipeline collects: the processed genes and, for every
\* unit, the variant effects, the variant metadata and the intergenic and
\* intragenic annotations.
ExpectedSaves ==
    {<<"save_genes", 0>>}
        \cup ({"save_effects", "save_meta", "save_inter", "save_intra"} \X Units)

\* saved_futures holds each expected save once, and each has finished.
AllSavesFinished ==
    /\ {saved_futures[i] : i \in 1..Len(saved_futures)} = ExpectedSaves
    /\ Len(saved_futures) = Cardinality(ExpectedSaves)
    /\ saves = [NoSaves EXCEPT !["finished"] = Len(saved_futures)]

\* C12: a complete pipeline closes its client and reaches 'Done!' only when
\* every save collected in saved_futures has finished without error; and
\* under fair scheduling a run in which nothing fails reaches 'Done!'.
C12_DoneAfterAllSaves ==
    /\ [](pc = "done" => client = "closed" /\ AllSavesFinished)
    /\ [](client = "closed" => pc = "done")
    /\ <>(pc = "done" \/ Failures > 0)

\* The complete hg38 pipeline is done, with the saves of every chromosome.
C12_Witness ==
    /\ entry = "run_complete_pipeline" /\ species = "hg38"
    /\ pc = "done" /\ client = "closed"
    /\ saves["finished"] = 1 + 4 * NumVariantFiles

====
